---- MODULE Spec2Model ----
(***************************************************************************)
(* Model of src/main.py: the System Effectiveness Evaluation Tool.         *)
(* One Streamlit script run is a synchronous pass: init_db, the form       *)
(* (insert_evaluation when submitted), the dashboard query                 *)
(* (get_filtered_data), the averages, the export, the trend chart and the  *)
(* admin reset (DELETE FROM evaluations).                                  *)
(* Time is counted in whole days.  A timestamp is stored as TEXT           *)
(* (IsoFormat) and parsed back by the query (ParseDate).                   *)
(***************************************************************************)
EXTENDS Integers, Sequences, FiniteSets, TLC

VARIABLES tableExists, cols, rows, seq, storage, now, pc, raised,
          form, filters, filtered_df, avg_df, exported, trend_df, hist

vars == <<tableExists, cols, rows, seq, storage, now, pc, raised,
          form, filters, filtered_df, avg_df, exported, trend_df, hist>>

\* ---------------------------------------------------------------- bounds
MaxId == 2
MaxNow == 8
MaxFilterRows == 2

\* ------------------------------------------------------------- constants
\* Python None / SQL NULL for text values
None == "<None>"
\* days_filter is an optional integer: <<>> is None, <<n>> is the integer n
NoDays == <<>>

Schema == <<"id", "timestamp", "system", "custom_system", "department",
            "system_area", "usability", "integration", "support",
            "customization", "comments">>

InsertColumns == <<"timestamp", "system", "custom_system", "department",
                   "system_area", "usability", "integration", "support",
                   "customization", "comments">>

\* the selectbox catalogues (subsets of the lists in the script)
Systems == {"Nulogy", "Other"}
CustomNames == {"", "Acme", "Zen"}
Departments == {"IT"}
SystemAreas == {"General"}
UsabilityVals == {8}
SliderDefault == 5
SystemFilterOptions == {"All", "Nulogy", "Other"}
DeptFilterOptions == {"All", "HR"}
TimeframeOptions == {"All time", "Last 7 days"}
ExportFormats == {"Excel", "CSV"}
DaySteps == {7, 8}

days_map == [t \in {"All time", "Last 7 days", "Last 30 days", "Last 90 days"} |->
               CASE t = "All time" -> NoDays
                 [] t = "Last 7 days" -> <<7>>
                 [] t = "Last 30 days" -> <<30>>
                 [] t = "Last 90 days" -> <<90>>]

\* ---------------------------------------------------------------- helpers
Range(s) == {s[i] : i \in 1..Len(s)}

Max(a, b) == IF a >= b THEN a ELSE b

RECURSIVE SetMax(_)
SetMax(S) == IF S = {} THEN 0
             ELSE LET x == CHOOSE y \in S : TRUE
                  IN Max(x, SetMax(S \ {x}))

RECURSIVE SumOf(_, _)
SumOf(S, f) == IF S = {} THEN 0
               ELSE LET r == CHOOSE y \in S : TRUE
                    IN r[f] + SumOf(S \ {r}, f)

RemoveCols(s, drop) == SelectSeq(s, LAMBDA c : c \notin drop)

\* datetime.now().isoformat(): the instant written as fixed-width text
IsoFormat(t) == <<t \div 100, (t \div 10) % 10, t % 10>>

\* parse_dates=["timestamp"]: the text read back as an instant
ParseDate(s) == s[1] * 100 + s[2] * 10 + s[3]

\* Python truthiness of an optional string and of an optional integer
TruthyStr(s) == s # None /\ s # ""
TruthyDays(d) == d # NoDays /\ d[1] # 0

\* ------------------------------------------------------------ the store
DB == [exists |-> tableExists, cols |-> cols, rows |-> rows, seq |-> seq]

\* CREATE TABLE IF NOT EXISTS evaluations (...)
CreateTableMutDrop(d) == [exists |-> TRUE, cols |-> Schema, rows |-> {}, seq |-> 0]
CreateTableIfNotExists(d) ==
    IF d.exists THEN d
    ELSE [exists |-> TRUE, cols |-> Schema, rows |-> {}, seq |-> 0]

\* ALTER TABLE evaluations ADD COLUMN c TEXT inside try/except
\* OperationalError: a duplicate column and a failed write are both swallowed
AddColumnMutWipe(d, c, st) ==
    IF c \in Range(d.cols) \/ st # "ok" THEN d
    ELSE [d EXCEPT !.cols = Append(d.cols, c), !.rows = {}]
AddColumn(d, c, st) ==
    IF c \in Range(d.cols) \/ st # "ok" THEN d
    ELSE [d EXCEPT !.cols = Append(d.cols, c)]

\* init_db(): result database and whether an exception left the function
init_db(d, st) ==
    IF st = "unreachable" THEN [db |-> d, raised |-> TRUE]
    ELSE IF ~d.exists /\ st # "ok" THEN [db |-> d, raised |-> TRUE]
    ELSE LET d1 == CreateTableIfNotExists(d)
             d2 == AddColumn(d1, "system_area", st)
             d3 == AddColumn(d2, "custom_system", st)
         IN [db |-> d3, raised |-> FALSE]

\* INTEGER PRIMARY KEY AUTOINCREMENT: one more than the largest rowid ever used
NextRowidMutReuse(d) == SetMax({r.id : r \in d.rows}) + 1
NextRowid(d) == Max(d.seq, SetMax({r.id : r \in d.rows})) + 1

\* insert_evaluation(...)
insert_evaluation(d, st, t, f) ==
    IF st # "ok" \/ ~d.exists \/ ~(Range(InsertColumns) \subseteq Range(d.cols))
    THEN [db |-> d, raised |-> TRUE]
    ELSE LET id == NextRowid(d)
             r == [id |-> id, timestamp |-> IsoFormat(t), system |-> f.system,
                   custom_system |-> f.custom_system,
                   department |-> f.department,
                   system_area |-> f.system_area, usability |-> f.usability,
                   integration |-> f.integration, support |-> f.support,
                   customization |-> f.customization, comments |-> f.comments]
         IN [db |-> [d EXCEPT !.rows = d.rows \cup {r}, !.seq = Max(d.seq, id)],
             raised |-> FALSE]

\* DELETE FROM evaluations
DeleteAllMutKeepLast(d) ==
    [d EXCEPT !.rows = {r \in d.rows : r.id = SetMax({q.id : q \in d.rows})}]
DeleteAll(d) == [d EXCEPT !.rows = {}]

\* pd.read_sql_query('SELECT * FROM evaluations', parse_dates=["timestamp"])
ReadSql(d) ==
    [cols |-> d.cols,
     rows |-> {[c \in Range(d.cols) |->
                  IF c = "timestamp" THEN ParseDate(r[c]) ELSE r[c]] : r \in d.rows}]

\* get_filtered_data(system_filter, dept_filter, days_filter) on a read table
FilterRows(df, sf, dpf, days, t) ==
    LET s1 == IF TruthyStr(sf) /\ sf # "All"
              THEN {r \in df.rows : r["system"] = sf} ELSE df.rows
        s2 == IF TruthyStr(dpf) /\ dpf # "All"
              THEN {r \in s1 : r["department"] = dpf} ELSE s1
        s3 == IF TruthyDays(days)
              THEN {r \in s2 : r["timestamp"] >= t - days[1]} ELSE s2
    IN [cols |-> df.cols, rows |-> s3]

get_filtered_data(d, sf, dpf, days, t) == FilterRows(ReadSql(d), sf, dpf, days, t)

\* ------------------------------------------------------------ dashboard
\* lambda row: row["custom_system"] if row["system"] == "Other"
\*             and row["custom_system"] else row["system"]
DisplayName(r) ==
    IF r["system"] = "Other" /\ TruthyStr(r["custom_system"])
    THEN r["custom_system"] ELSE r["system"]

\* df["system_name"] = df.apply(lambda ...): one more column, at the end
WithSystemName(df) ==
    [cols |-> Append(df.cols, "system_name"),
     rows |-> {[c \in DOMAIN r \cup {"system_name"} |->
                  IF c = "system_name" THEN DisplayName(r) ELSE r[c]] : r \in df.rows}]

\* the trend chart resolves the name again on its own copy (overwriting it)
TrendNameMutCustom(r) ==
    IF r["system"] = "Other" THEN r["custom_system"] ELSE r["system"]
TrendName(r) ==
    IF r["system"] = "Other" /\ TruthyStr(r["custom_system"])
    THEN r["custom_system"] ELSE r["system"]

TrendCopy(df) ==
    [cols |-> IF "system_name" \in Range(df.cols) THEN df.cols
              ELSE Append(df.cols, "system_name"),
     rows |-> {[c \in DOMAIN r \cup {"system_name"} |->
                  IF c = "system_name" THEN TrendName(r) ELSE r[c]] : r \in df.rows}]

\* .mean().round(2), in hundredths: nearest, a tie going to the even value
RoundedMean(total, n) ==
    LET q == (100 * total) \div n
        rem == (100 * total) % n
    IN IF 2 * rem > n THEN q + 1
       ELSE IF 2 * rem < n THEN q
       ELSE IF q % 2 = 0 THEN q ELSE q + 1

\* groupby('system_name').agg(mean).round(2).reset_index()
GroupAverages(df) ==
    {LET g == {r \in df.rows : r["system_name"] = k}
         n == Cardinality(g)
     IN [system_name |-> k,
         usability |-> RoundedMean(SumOf(g, "usability"), n),
         integration |-> RoundedMean(SumOf(g, "integration"), n),
         support |-> RoundedMean(SumOf(g, "support"), n),
         customization |-> RoundedMean(SumOf(g, "customization"), n)]
     : k \in {r["system_name"] : r \in df.rows}}

\* to_csv(index=False) / to_excel(index=False): the frame's columns, its rows
ExportFrame(df, fmt) == [format |-> fmt, header |-> df.cols, rows |-> df.rows]

\* ------------------------------------------------- the script, top to bottom
NoFrame == [cols |-> <<>>, rows |-> {}]
NoExport == [format |-> None, header |-> <<>>, rows |-> {}]
NoForm == [submitted |-> FALSE, system |-> None, custom_system |-> None,
           department |-> None, usability |-> 0]
NoFilters == [system_filter |-> None, dept_filter |-> None, days_filter |-> NoDays]

NextPcMutClearFirst(p) ==
    CASE p = "idle" -> "init_db"
      [] p = "init_db" -> "form"
      [] p = "form" -> "admin"
      [] p = "admin" -> "query"
      [] p = "query" -> "average"
      [] p = "average" -> "export"
      [] p = "export" -> "trend"
      [] p = "trend" -> "idle"
NextPc(p) ==
    CASE p = "idle" -> "init_db"
      [] p = "init_db" -> "form"
      [] p = "form" -> "query"
      [] p = "query" -> "average"
      [] p = "average" -> "export"
      [] p = "export" -> "trend"
      [] p = "trend" -> "admin"
      [] p = "admin" -> "idle"

\* the statement after p, or the run's end when an exception left it
After(p, exc) == IF exc THEN "idle" ELSE NextPc(p)

StoreVars == <<tableExists, cols, rows, seq>>
Locals == <<form, filters, filtered_df, avg_df, exported, trend_df>>

SetStore(d) ==
    /\ tableExists' = d.exists
    /\ cols' = d.cols
    /\ rows' = d.rows
    /\ seq' = d.seq

\* a user interaction starts a new run of the script
Rerun ==
    /\ pc = "idle"
    /\ pc' = NextPc(pc)
    /\ raised' = FALSE
    /\ form' = NoForm
    /\ filters' = NoFilters
    /\ filtered_df' = NoFrame
    /\ avg_df' = {}
    /\ exported' = NoExport
    /\ trend_df' = NoFrame
    /\ UNCHANGED <<StoreVars, storage, now, hist>>

\* line 82: init_db()
InitDb ==
    /\ pc = "init_db"
    /\ LET res == init_db(DB, storage)
       IN /\ SetStore(res.db)
          /\ raised' = res.raised
          /\ pc' = After(pc, res.raised)
    /\ UNCHANGED <<storage, now, Locals, hist>>

\* lines 92-132: the form; insert_evaluation when submitted.
\* custom_system is "" unless the system is "Other" (line 96).  The widget
\* values of a form that is not submitted are read by nothing, so one
\* choice stands for them; inserts stop at MaxId.
Form ==
    /\ pc = "form"
    /\ \E submitted \in BOOLEAN, system \in Systems, name \in CustomNames,
          department \in Departments, area \in SystemAreas, u \in UsabilityVals :
          LET custom_system == IF system = "Other" THEN name ELSE ""
              f == [system |-> system, custom_system |-> custom_system,
                    department |-> department, system_area |-> area,
                    usability |-> u, integration |-> SliderDefault,
                    support |-> SliderDefault, customization |-> SliderDefault,
                    comments |-> ""]
              res == IF submitted THEN insert_evaluation(DB, storage, now, f)
                     ELSE [db |-> DB, raised |-> FALSE]
          IN /\ submitted => seq < MaxId
             /\ ~submitted => (system = "Nulogy")
             /\ (system # "Other") => name = ""
             /\ SetStore(res.db)
             /\ raised' = res.raised
             /\ pc' = After(pc, res.raised)
             /\ form' = [submitted |-> submitted, system |-> system,
                         custom_system |-> custom_system,
                         department |-> department, usability |-> u]
             /\ hist' = IF submitted /\ ~res.raised
                        THEN [hist EXCEPT
                                !.assigned = Append(@, SetMax({r.id : r \in res.db.rows \ rows})),
                                !.afterClear = FALSE]
                        ELSE hist
    /\ UNCHANGED <<storage, now, filters, filtered_df, avg_df, exported, trend_df>>

\* lines 141-149: the filter widgets and filtered_df = get_filtered_data(...)
Query ==
    /\ pc = "query"
    /\ \E sf \in SystemFilterOptions, dpf \in DeptFilterOptions,
          tf \in TimeframeOptions :
          LET exc == storage = "unreachable" \/ ~tableExists
          IN /\ filters' = [system_filter |-> sf, dept_filter |-> dpf,
                            days_filter |-> days_map[tf]]
             /\ filtered_df' = IF exc THEN NoFrame
                               ELSE get_filtered_data(DB, sf, dpf, days_map[tf], now)
             /\ raised' = exc
             /\ pc' = After(pc, exc)
    /\ UNCHANGED <<StoreVars, storage, now, form, avg_df, exported, trend_df, hist>>

\* lines 152-177: system_name is added to filtered_df itself, then groupby
\* and lines 179-186: the recent-feedback table selects its columns by name.
\* A column the table lacks is a KeyError.
AverageScores ==
    /\ pc = "average"
    /\ LET nameRaises == \E r \in filtered_df.rows :
                            r["system"] = "Other" /\ "custom_system" \notin DOMAIN r
           recentRaises == ~(Range(InsertColumns) \subseteq Range(filtered_df.cols))
           exc == filtered_df.rows # {} /\ (nameRaises \/ recentRaises)
       IN /\ IF filtered_df.rows # {} /\ ~nameRaises
             THEN /\ filtered_df' = WithSystemName(filtered_df)
                  /\ avg_df' = GroupAverages(WithSystemName(filtered_df))
             ELSE UNCHANGED <<filtered_df, avg_df>>
          /\ raised' = exc
          /\ pc' = After(pc, exc)
    /\ UNCHANGED <<StoreVars, storage, now, form, filters, exported, trend_df, hist>>

\* lines 188-208: the export of filtered_df
Export ==
    /\ pc = "export"
    /\ \E fmt \in ExportFormats : exported' = ExportFrame(filtered_df, fmt)
    /\ pc' = NextPc(pc)
    /\ UNCHANGED <<StoreVars, storage, now, raised, form, filters, filtered_df,
                   avg_df, trend_df, hist>>

\* lines 210-231: the trend chart on a copy of filtered_df
Trend ==
    /\ pc = "trend"
    /\ trend_df' = IF filtered_df.rows # {} THEN TrendCopy(filtered_df) ELSE trend_df
    /\ pc' = NextPc(pc)
    /\ UNCHANGED <<StoreVars, storage, now, raised, form, filters, filtered_df,
                   avg_df, exported, hist>>

\* lines 235-243: the admin reset; the button is true only in the run it starts
AdminReset ==
    /\ pc = "admin"
    /\ \E clear \in BOOLEAN :
          LET exc == clear /\ (storage # "ok" \/ ~tableExists)
          IN /\ clear => ~form.submitted
             /\ SetStore(IF clear /\ ~exc THEN DeleteAll(DB) ELSE DB)
             /\ raised' = exc
             /\ pc' = After(pc, exc)
             /\ hist' = IF clear /\ ~exc
                        THEN [hist EXCEPT !.cleared = @ \cup {r.id : r \in rows}, !.afterClear = TRUE]
                        ELSE hist
    /\ UNCHANGED <<storage, now, Locals>>

\* wall-clock time passes between two runs
Tick ==
    /\ pc = "idle"
    /\ \E d \in DaySteps : now + d <= MaxNow /\ now' = now + d
    /\ UNCHANGED <<StoreVars, storage, pc, raised, Locals, hist>>

\* the database file found at process start: none, the current table, or the
\* table of an earlier version without system_area and/or custom_system
LegacyRow(cs) ==
    [id |-> 1, timestamp |-> IsoFormat(0), system |-> "Other",
     custom_system |-> IF "custom_system" \in Range(cs) THEN "Acme" ELSE None,
     department |-> "IT",
     system_area |-> IF "system_area" \in Range(cs) THEN "General" ELSE None,
     usability |-> 4, integration |-> SliderDefault, support |-> SliderDefault,
     customization |-> SliderDefault, comments |-> ""]

InitStore ==
    \/ /\ tableExists = FALSE
       /\ cols = <<>>
       /\ rows = {}
       /\ seq = 0
    \/ /\ tableExists = TRUE
       /\ \E drop \in SUBSET {"system_area", "custom_system"} :
             /\ cols = RemoveCols(Schema, drop)
             /\ \/ rows = {} /\ seq = 0
                \/ rows = {LegacyRow(cols)} /\ seq = 1

InitLocals ==
    /\ raised = FALSE
    /\ form = NoForm
    /\ filters = NoFilters
    /\ filtered_df = NoFrame
    /\ avg_df = {}
    /\ exported = NoExport
    /\ trend_df = NoFrame

\* history kept for the properties only: the ids insert has assigned, in
\* order; the ids of the records a clear has deleted; whether the last write was a clear
InitHist ==
    hist = [assigned |-> IF rows = {} THEN <<>> ELSE <<1>>, cleared |-> {},
            afterClear |-> FALSE]

Init ==
    /\ InitStore
    /\ storage = "ok"
    /\ now = 0
    /\ pc = "idle"
    /\ InitLocals
    /\ InitHist

Next ==
    \/ Rerun
    \/ InitDb
    \/ Form
    \/ Query
    \/ AverageScores
    \/ Export
    \/ Trend
    \/ AdminReset
    \/ Tick

Spec == Init /\ [][Next]_vars

\* --------------------------------------------- storage faults (SpecFault)
\* the database file becomes read-only or locked for writing, or cannot be
\* opened at all, or works again; between two runs of the script
StorageChange ==
    /\ pc = "idle"
    /\ \E st \in {"ok", "readonly", "unreachable"} : st # storage /\ storage' = st
    /\ UNCHANGED <<StoreVars, now, pc, raised, Locals, hist>>

NextFault == Next \/ StorageChange

SpecFault == Init /\ [][NextFault]_vars

\* ------------------------------- get_filtered_data called directly (SpecFilter)
AgeDays == {1, 7, 8}
ApiSystemFilters == {None, "All", "Nulogy", "Other"}
ApiDeptFilters == {None, "All", "IT", "HR"}
ApiDaysFilters == {NoDays, <<0>>, <<1>>, <<7>>, <<30>>}

StoredRecord(i, age, system, department) ==
    [id |-> i, timestamp |-> IsoFormat(MaxNow - age), system |-> system,
     custom_system |-> "", department |-> department, system_area |-> "General",
     usability |-> SliderDefault, integration |-> SliderDefault,
     support |-> SliderDefault, customization |-> SliderDefault, comments |-> ""]

\* a table holding records 1..n, inserted at the given ages, oldest first
InitFilter ==
    /\ tableExists = TRUE
    /\ cols = Schema
    /\ \E n \in 0..MaxFilterRows :
          \E age \in [1..n -> AgeDays], sy \in [1..n -> Systems],
             dp \in [1..n -> {"IT", "HR"}] :
             /\ \A i \in 1..n, j \in 1..n : i < j => age[i] >= age[j]
             /\ rows = {StoredRecord(i, age[i], sy[i], dp[i]) : i \in 1..n}
             /\ seq = n
             /\ hist = [assigned |-> [i \in 1..n |-> i], cleared |-> {},
                        afterClear |-> FALSE]
    /\ storage = "ok"
    /\ now = MaxNow
    /\ pc = "api"
    /\ InitLocals

CallGetFilteredData ==
    /\ pc = "api"
    /\ \E sf \in ApiSystemFilters, dpf \in ApiDeptFilters, days \in ApiDaysFilters :
          /\ filters' = [system_filter |-> sf, dept_filter |-> dpf, days_filter |-> days]
          /\ filtered_df' = get_filtered_data(DB, sf, dpf, days, now)
    /\ UNCHANGED <<StoreVars, storage, now, pc, raised, form, avg_df, exported,
                   trend_df, hist>>

SpecFilter == InitFilter /\ [][CallGetFilteredData]_vars

\* ------------------------------------------------------------- properties
Ids(S) == {r["id"] : r \in S}

\* the stored record set as get_all returns it
StoredRecords == ReadSql(DB).rows

\* the three predicates of the filter contract: a filter that is None or the
\* sentinel "All" is no filter; a days filter that is None is no filter
PassesSystem(r, sf) == sf \in {None, "All"} \/ r["system"] = sf
PassesDepartment(r, dpf) == dpf \in {None, "All"} \/ r["department"] = dpf
PassesRecency(r, days, t) == days = NoDays \/ r["timestamp"] >= t - days[1]

Called == filtered_df # NoFrame

\* C1: get_filtered_data returns exactly the stored records that satisfy every
\* active predicate at once (system, department, recency cutoff), and with
\* "All", "All", None it returns the stored record set itself.
C1_FilterConjunction ==
    (pc = "api" /\ Called) =>
        filtered_df.rows =
            {r \in StoredRecords :
                /\ PassesSystem(r, filters.system_filter)
                /\ PassesDepartment(r, filters.dept_filter)
                /\ PassesRecency(r, filters.days_filter, now)}

\* C2: for every days_filter that is not None, a record that passes the other
\* filters is kept if and only if its timestamp >= now - days_filter days.
C2_RecencyCutoff ==
    (pc = "api" /\ Called /\ filters.days_filter # NoDays) =>
        \A r \in StoredRecords :
            (PassesSystem(r, filters.system_filter)
               /\ PassesDepartment(r, filters.dept_filter)) =>
                (r \in filtered_df.rows
                    <=> r["timestamp"] >= now - filters.days_filter[1])

\* C3: once a clear has completed and until the next insert, the unfiltered
\* query returns nothing; and no query made after a clear returns a record
\* that the clear deleted.
C3_ClearEmpties ==
    /\ hist.afterClear =>
          get_filtered_data(DB, None, None, NoDays, now).rows = {}
    /\ hist.afterClear =>
          get_filtered_data(DB, "All", "All", NoDays, now).rows = {}
    /\ (pc \in {"average", "export", "trend", "admin"}) =>
          Ids(filtered_df.rows) \cap hist.cleared = {}
    /\ Ids(rows) \cap hist.cleared = {}

C3_Witness ==
    /\ hist.afterClear
    /\ hist.cleared # {}
    /\ pc = "average"
    /\ filters.system_filter = "All" /\ filters.dept_filter = "All"
    /\ filters.days_filter = NoDays

\* C4: the ids insert assigns are strictly increasing in the order they are
\* assigned, across clears: no id is assigned twice, none is reused.
C4_IdsIncrease ==
    /\ \A i \in 1..Len(hist.assigned), j \in 1..Len(hist.assigned) :
          i < j => hist.assigned[i] < hist.assigned[j]
    /\ \A r \in rows : \E i \in 1..Len(hist.assigned) : hist.assigned[i] = r.id
    /\ \A r \in rows, q \in rows : r.id = q.id => r = q

C4_Witness ==
    /\ hist.cleared # {}
    /\ rows # {}
    /\ Len(hist.assigned) >= 2

\* C5: init_db on every database the program meets ends with the table and
\* both columns, run twice gives what run once gives, and it keeps every
\* row with every field; and after line 82 the table has both columns.
C5_InitDbIdempotent ==
    LET once == init_db(DB, storage)
        twice == init_db(once.db, storage)
    IN /\ ~once.raised /\ ~twice.raised
       /\ once.db.exists
       /\ {"system_area", "custom_system"} \subseteq Range(once.db.cols)
       /\ Len(once.db.cols) = Cardinality(Range(once.db.cols))
       /\ Range(cols) \subseteq Range(once.db.cols)
       /\ twice.db = once.db
       /\ once.db.rows = rows
       /\ (pc \notin {"idle", "init_db"}) =>
             (tableExists /\ Range(Schema) = Range(cols) /\ Len(cols) = Len(Schema))

C5_Witness ==
    /\ pc = "form"
    /\ cols # Schema
    /\ Range(cols) = Range(Schema)
    /\ rows # {}

\* the display-name rule as the contract states it
ContractName(r) ==
    IF r["system"] = "Other" /\ r["custom_system"] \notin {"", None}
    THEN r["custom_system"] ELSE r["system"]

\* C6: the group keys of the averages and the names of the trend series are
\* both the contract's display names of the filtered records, resolved per
\* record before grouping; so the two sets of names are equal.
C6_DisplayNames ==
    /\ (pc \in {"export", "trend", "admin"} /\ filtered_df.rows # {}) =>
          /\ {g.system_name : g \in avg_df} = {ContractName(r) : r \in filtered_df.rows}
          /\ \A r \in filtered_df.rows : r["system_name"] = ContractName(r)
    /\ (pc = "admin" /\ filtered_df.rows # {}) =>
          /\ {r["system_name"] : r \in trend_df.rows} = {g.system_name : g \in avg_df}
          /\ \A r \in trend_df.rows : r["system_name"] = ContractName(r)
          /\ Ids(trend_df.rows) = Ids(filtered_df.rows)
    /\ (pc \in {"export", "trend", "admin"} /\ filtered_df.rows = {}) =>
          (avg_df = {} /\ trend_df = NoFrame)

C6_Witness ==
    /\ pc = "admin"
    /\ \E r \in trend_df.rows, q \in trend_df.rows :
          /\ r["system"] = "Other" /\ q["system"] = "Other"
          /\ r["custom_system"] = "Zen" /\ q["custom_system"] \in {"", None}
    /\ Cardinality(avg_df) = 2

\* C7: the export has one row per filtered record under a header that is
\* exactly the record fields in schema order, with no extra column, whether
\* or not the filtered set is empty.
C7_ExportHeader ==
    (pc \in {"trend", "admin"}) =>
        /\ exported.header = Schema
        /\ Ids(exported.rows) = Ids(filtered_df.rows)
        /\ \A r \in exported.rows : DOMAIN r = Range(Schema)

\* C8: a stored record never changes; a record appears only by the form's
\* insert, one per run; a record disappears only in the admin reset, which
\* removes every record.
C8_StoreFrame ==
    [][/\ (rows' # rows) =>
            \/ /\ pc = "form"
               /\ rows \subseteq rows'
               /\ Cardinality(rows' \ rows) = 1
               /\ \A r \in rows' \ rows :
                     /\ r.id \notin Ids(rows)
                     /\ ParseDate(r.timestamp) = now
                     /\ r.system = form'.system
                     /\ r.custom_system = form'.custom_system
            \/ /\ pc = "admin"
               /\ rows' = {}
       /\ (pc \in {"init_db", "query", "average", "export", "trend"}) => rows' = rows
      ]_vars

C8_Witness ==
    /\ pc = "admin"
    /\ cols # Schema
    /\ Cardinality(rows) = 2
    /\ form.submitted

\* C9: when init_db returns normally, the table has both columns: no storage
\* failure other than "column already exists" is swallowed.
C9_InitDbSurfacesFailures ==
    (pc \in {"form", "query", "average", "export", "trend", "admin"}) =>
        {"system_area", "custom_system"} \subseteq Range(cols)

\* the order of one run as the contract states it
ContractOrder ==
    {<<"idle", "init_db">>, <<"init_db", "form">>, <<"form", "query">>,
     <<"query", "average">>, <<"average", "export">>, <<"export", "trend">>,
     <<"trend", "admin">>, <<"admin", "idle">>}

\* C10: a run goes init_db, insert, query, aggregation/export/trend, clear;
\* the query of a run in which a record was submitted returns that record
\* when it matches the filters; what the run in which the clear executes
\* shows and exports is computed from the records as they were before it.
C10_PassOrder ==
    /\ [][/\ (pc' # pc) => <<pc, pc'>> \in ContractOrder
          /\ (rows' # rows) => pc \in {"form", "admin"}
          /\ (rows' # rows /\ pc = "admin") =>
                /\ Ids(filtered_df.rows) =
                      Ids(get_filtered_data(DB, filters.system_filter,
                                            filters.dept_filter,
                                            filters.days_filter, now).rows)
                /\ UNCHANGED <<filtered_df, avg_df, exported, trend_df>>
                /\ Ids(exported.rows) = Ids(filtered_df.rows)
         ]_vars
    /\ [](( /\ pc \in {"average", "export", "trend", "admin"}
            /\ form.submitted
            /\ PassesSystem(form, filters.system_filter)
            /\ PassesDepartment(form, filters.dept_filter))
          => \E r \in filtered_df.rows :
                /\ r["id"] = seq
                /\ r["system"] = form.system
                /\ r["custom_system"] = form.custom_system)

C10_Witness ==
    /\ pc = "idle"
    /\ hist.afterClear
    /\ rows = {}
    /\ Cardinality(exported.rows) = 2
    /\ avg_df # {}

====
